---- MODULE Spec2Model ----
(***************************************************************************)
(* Model of async_chess_client's asset layer:                              *)
(*   src/src/chess.rs   ChessPieceKind, ChessPiece (taxonomy, parsing,     *)
(*                      file names, ordering)                              *)
(*   src/src/cacher.rs  Cacher (texture cache: new, get, insert, populate) *)
(*                                                                         *)
(* A Rust String is modelled as a sequence of one-character strings, so    *)
(* that trim, to_lowercase and format! are computed character by character.*)
(***************************************************************************)
EXTENDS Integers, Sequences, FiniteSets, TLC

(***************************************************************************)
(* Bounds of the model.                                                    *)
(***************************************************************************)
\* longest run of whitespace put before / after a parse input
MaxPad == 1
\* most asset files that are unreadable during one populate call
MaxMissing == 2
\* most populate calls made on one Cacher
MaxPopulate == 2

(***************************************************************************)
(* Characters and the std string functions used by the code.               *)
(***************************************************************************)
UpperChars ==
  <<"A","B","C","D","E","F","G","H","I","J","K","L","M",
    "N","O","P","Q","R","S","T","U","V","W","X","Y","Z">>

LowerChars ==
  <<"a","b","c","d","e","f","g","h","i","j","k","l","m",
    "n","o","p","q","r","s","t","u","v","w","x","y","z">>

WhiteChars == {" ", "\t", "\n"}

\* char::to_lowercase on the characters of the model's alphabet
ToLowerChar(c) ==
  IF \E i \in 1..Len(UpperChars) : UpperChars[i] = c
  THEN LowerChars[CHOOSE i \in 1..Len(UpperChars) : UpperChars[i] = c]
  ELSE c

\* char::to_uppercase, used only to build differently cased parse inputs
ToUpperChar(c) ==
  IF \E i \in 1..Len(LowerChars) : LowerChars[i] = c
  THEN UpperChars[CHOOSE i \in 1..Len(LowerChars) : LowerChars[i] = c]
  ELSE c

\* str::to_lowercase
to_lowercase(s) == [i \in 1..Len(s) |-> ToLowerChar(s[i])]

RECURSIVE trim_start(_)
\* str::trim_start
trim_start(s) ==
  IF s # <<>> /\ Head(s) \in WhiteChars THEN trim_start(Tail(s)) ELSE s

RECURSIVE trim_end(_)
\* str::trim_end
trim_end(s) ==
  IF s # <<>> /\ s[Len(s)] \in WhiteChars
  THEN trim_end(SubSeq(s, 1, Len(s) - 1))
  ELSE s

\* str::trim
trim(s) == trim_end(trim_start(s))

(***************************************************************************)
(* chess.rs: ChessPieceKind                                                *)
(***************************************************************************)
Kinds == {"Bishop", "Knight", "Pawn", "Queen", "King", "Rook"}

\* strum EnumIter: the variants in the order the enum declares them
KindIter == <<"Bishop", "Knight", "Pawn", "Queen", "King", "Rook">>

\* the explicit #[repr(u8)] discriminants
Discriminant(k) ==
  CASE k = "Bishop" -> 2
    [] k = "Knight" -> 1
    [] k = "Pawn"   -> 0
    [] k = "Queen"  -> 4
    [] k = "King"   -> 5
    [] k = "Rook"   -> 3

\* strum Display: the variant's name as written in the enum
Display(k) ==
  CASE k = "Bishop" -> <<"B","i","s","h","o","p">>
    [] k = "Knight" -> <<"K","n","i","g","h","t">>
    [] k = "Pawn"   -> <<"P","a","w","n">>
    [] k = "Queen"  -> <<"Q","u","e","e","n">>
    [] k = "King"   -> <<"K","i","n","g">>
    [] k = "Rook"   -> <<"R","o","o","k">>

Ok(v) == [tag |-> "Ok", val |-> v]

Err(e) == [tag |-> "Err", err |-> e]

FailedMatch(s) == [variant |-> "FailedMatch", value |-> s]

\* a plausible slip: the error carries the input as given, not normalized
try_from_raw_error(value) ==
  LET v == to_lowercase(trim(value)) IN
  CASE v = <<"b","i","s","h","o","p">> -> Ok("Bishop")
    [] v = <<"k","n","i","g","h","t">> -> Ok("Knight")
    [] v = <<"p","a","w","n">>         -> Ok("Pawn")
    [] v = <<"q","u","e","e","n">>     -> Ok("Queen")
    [] v = <<"k","i","n","g">>         -> Ok("King")
    [] v = <<"r","o","o","k">>         -> Ok("Rook")
    [] OTHER                           -> Err(FailedMatch(value))

\* a plausible slip: two match arms with their results exchanged
try_from_swapped(value) ==
  LET v == to_lowercase(trim(value)) IN
  CASE v = <<"b","i","s","h","o","p">> -> Ok("Bishop")
    [] v = <<"k","n","i","g","h","t">> -> Ok("Knight")
    [] v = <<"p","a","w","n">>         -> Ok("Pawn")
    [] v = <<"q","u","e","e","n">>     -> Ok("King")
    [] v = <<"k","i","n","g">>         -> Ok("Queen")
    [] v = <<"r","o","o","k">>         -> Ok("Rook")
    [] OTHER                           -> Err(FailedMatch(v))

\* impl TryFrom<String> for ChessPieceKind
try_from(value) ==
  LET v == to_lowercase(trim(value)) IN
  CASE v = <<"b","i","s","h","o","p">> -> Ok("Bishop")
    [] v = <<"k","n","i","g","h","t">> -> Ok("Knight")
    [] v = <<"p","a","w","n">>         -> Ok("Pawn")
    [] v = <<"q","u","e","e","n">>     -> Ok("Queen")
    [] v = <<"k","i","n","g">>         -> Ok("King")
    [] v = <<"r","o","o","k">>         -> Ok("Rook")
    [] OTHER                           -> Err(FailedMatch(v))

(***************************************************************************)
(* chess.rs: ChessPiece                                                    *)
(***************************************************************************)
ChessPiece == [kind : Kinds, is_white : BOOLEAN]

RECURSIVE push_variants(_, _)
\* the loop body of all_variants over the first n kinds of the iterator
push_variants(iter, n) ==
  IF n = 0 THEN <<>>
  ELSE push_variants(iter, n - 1)
         \o << [kind |-> iter[n], is_white |-> FALSE],
               [kind |-> iter[n], is_white |-> TRUE] >>

\* a plausible slip: the white piece pushed before the black one
all_variants_white_first ==
  [i \in 1..(2 * Len(KindIter)) |->
     [kind |-> KindIter[(i + 1) \div 2], is_white |-> (i % 2 = 1)]]

\* a plausible slip: only the black piece of each kind is pushed
all_variants_black_only ==
  [i \in 1..Len(KindIter) |-> [kind |-> KindIter[i], is_white |-> FALSE]]

\* ChessPiece::all_variants
all_variants == push_variants(KindIter, Len(KindIter))

\* ChessPiece::to_file_name
to_file_name(p) ==
  (IF p.is_white THEN <<"w","h","i","t","e">> ELSE <<"b","l","a","c","k">>)
    \o <<"_">> \o to_lowercase(Display(p.kind)) \o <<".","p","n","g">>

Some(v) == [tag |-> "Some", val |-> v]

None == [tag |-> "None"]

\* comparison of two integers / of two bools (false < true), as core::cmp does
CmpInt(a, b) == IF a < b THEN "Less" ELSE IF a > b THEN "Greater" ELSE "Equal"

BoolRank(b) == IF b THEN 1 ELSE 0

\* a plausible slip: kinds compared by position in the declaration
kind_partial_cmp_declared(a, b) ==
  LET Pos(k) == CHOOSE i \in 1..Len(KindIter) : KindIter[i] = k
  IN  Some(CmpInt(Pos(a), Pos(b)))

\* derived PartialOrd of ChessPieceKind: by discriminant
kind_partial_cmp(a, b) == Some(CmpInt(Discriminant(a), Discriminant(b)))

\* impl PartialOrd for ChessPiece
partial_cmp(self, other) ==
  LET ord == Some(CmpInt(BoolRank(self.is_white), BoolRank(other.is_white)))
  IN  IF ord = Some("Equal")
      THEN kind_partial_cmp(self.kind, other.kind)
      ELSE ord

\* error_ext: Option -> anyhow::Result -> value, aborting when there is none
unwrap_log_error(opt) == IF opt.tag = "Some" THEN opt.val ELSE "abort"

\* impl Ord for ChessPiece
cmp(self, other) == unwrap_log_error(partial_cmp(self, other))

(***************************************************************************)
(* cacher.rs: Cacher                                                       *)
(***************************************************************************)
\* a plausible slip: the last extra image left out of the list
Extras_two ==
  << <<"b","o","a","r","d","_","a","l","t",".","p","n","g">>,
     <<"h","i","g","h","l","i","g","h","t",".","p","n","g">> >>

\* the three fixed extra images of populate's second loop
Extras ==
  << <<"b","o","a","r","d","_","a","l","t",".","p","n","g">>,
     <<"h","i","g","h","l","i","g","h","t",".","p","n","g">>,
     <<"s","e","l","e","c","t","e","d",".","p","n","g">> >>

\* what an error message names: a piece variant ({variant:?}) or an extra file
VariantAsset(p) == [what |-> "variant", kind |-> p.kind, is_white |-> p.is_white]

ExtraAsset(name) == [what |-> "extra", name |-> name]

\* PathBuf::join of the base path and a file name
join(base, p) == [dir |-> base, file |-> p]

\* the texture Texture::from_path builds: one per file and per load
Texture(file, call) == [file |-> file, call |-> call]

\* HashMap::insert: add the key, or replace the value of an existing key
MapInsert(m, k, v) == [x \in (DOMAIN m) \cup {k} |-> IF x = k THEN v ELSE m[x]]

\* a plausible slip: the key is stored even though the load failed
insert_on_failure(c, p, missing, call) ==
  [res    |-> IF p \in missing THEN Err("Unable to find texture") ELSE Ok("unit"),
   assets |-> MapInsert(c.assets, p, Texture(join(c.path, p), call))]

\* Cacher::insert on cache c; missing = the files from_path cannot load
insert(c, p, missing, call) ==
  IF p \notin missing
  THEN [res    |-> Ok("unit"),
        assets |-> MapInsert(c.assets, p, Texture(join(c.path, p), call))]
  ELSE [res |-> Err("Unable to find texture"), assets |-> c.assets]

RECURSIVE load_loop_keep_going(_, _, _, _, _)
\* a plausible slip: the error is remembered but the loop runs on
load_loop_keep_going(st, items, i, missing, call) ==
  IF i > Len(items) THEN st
  ELSE
    LET r == insert([path |-> st.path, assets |-> st.assets],
                    items[i].key, missing, call)
        att == Append(st.attempted, items[i])
    IN  load_loop_keep_going(
          [path |-> st.path, assets |-> r.assets, attempted |-> att,
           ret  |-> IF st.ret.tag = "Ok" /\ r.res.tag = "Err"
                    THEN Err([asset |-> items[i].asset, cause |-> r.res.err])
                    ELSE st.ret],
          items, i + 1, missing, call)

RECURSIVE load_loop(_, _, _, _, _)
\* one `for` loop of populate: insert each item, `?` returns at the first Err
load_loop(st, items, i, missing, call) ==
  IF i > Len(items) THEN st
  ELSE
    LET r == insert([path |-> st.path, assets |-> st.assets],
                    items[i].key, missing, call)
        att == Append(st.attempted, items[i])
    IN  IF r.res.tag = "Err"
        THEN [path |-> st.path, assets |-> r.assets, attempted |-> att,
              ret  |-> Err([asset |-> items[i].asset, cause |-> r.res.err])]
        ELSE load_loop([path |-> st.path, assets |-> r.assets,
                        attempted |-> att, ret |-> st.ret],
                       items, i + 1, missing, call)

\* the items of the first loop: every variant with its derived file name
VariantItems ==
  [i \in 1..Len(all_variants) |->
     [asset |-> VariantAsset(all_variants[i]),
      key   |-> to_file_name(all_variants[i])]]

\* the items of the second loop
ExtraItems ==
  [i \in 1..Len(Extras) |-> [asset |-> ExtraAsset(Extras[i]), key |-> Extras[i]]]

\* a plausible slip: the map is emptied before it is filled again
populate_clearing(c, missing, call) ==
  LET s0 == [path |-> c.path, assets |-> <<>>, attempted |-> <<>>,
             ret |-> Ok("unit")]
      s1 == load_loop(s0, VariantItems, 1, missing, call)
  IN  IF s1.ret.tag = "Err" THEN s1
      ELSE load_loop(s1, ExtraItems, 1, missing, call)

\* Cacher::populate on cache c
populate(c, missing, call) ==
  LET s0 == [path |-> c.path, assets |-> c.assets, attempted |-> <<>>,
             ret |-> Ok("unit")]
      s1 == load_loop(s0, VariantItems, 1, missing, call)
  IN  IF s1.ret.tag = "Err" THEN s1
      ELSE load_loop(s1, ExtraItems, 1, missing, call)

\* a plausible slip: a miss makes get fetch the texture
get_loading(c, p) ==
  [res    |-> Some(Texture(join(c.path, p), 0)),
   assets |-> MapInsert(c.assets, p, Texture(join(c.path, p), 0))]

\* Cacher::get on cache c
get(c, p) ==
  [res    |-> IF p \in DOMAIN c.assets THEN Some(c.assets[p]) ELSE None,
   assets |-> c.assets]

(***************************************************************************)
(* State.                                                                  *)
(*   Cacher:   path, assets  the struct's two fields                       *)
(*             calls         populate calls made so far                    *)
(*             ret           what the last populate call returned          *)
(*             attempted     the loads the last populate call attempted    *)
(*             env           the unreadable files during that call         *)
(*             got           the last get: its argument and its result;    *)
(*                           the borrow ends before populate (&mut self)   *)
(*   parsing:  value, parsed the argument and the result of try_from       *)
(*   pieces:   x, y, z       three pieces; ords their comparisons;         *)
(*             variants      the result of all_variants;                   *)
(*             names         the file names of the variants                *)
(***************************************************************************)
VARIABLES path, assets, calls, ret, attempted, env, got,
          value, parsed,
          x, y, z, ords, variants, names

cacheVars == <<path, assets, calls, ret, attempted, env, got>>

kindVars == <<value, parsed>>

pieceVars == <<x, y, z, ords, variants, names>>

vars == <<path, assets, calls, ret, attempted, env, got,
          value, parsed, x, y, z, ords, variants, names>>

\* directories Cacher::new may resolve "assets" to
BasePaths == {"./assets", "../assets"}

\* every file populate asks for
AssetKeys ==
  {VariantItems[i].key : i \in 1..Len(VariantItems)}
    \cup {ExtraItems[i].key : i \in 1..Len(ExtraItems)}

\* the files the model lets be unreadable: the first and the last of the load
\* order, variants in between, both rooks, and the first extra
Fragile ==
  { to_file_name([kind |-> "Bishop", is_white |-> FALSE]),
    to_file_name([kind |-> "Knight", is_white |-> TRUE]),
    to_file_name([kind |-> "Queen", is_white |-> FALSE]),
    to_file_name([kind |-> "Rook", is_white |-> FALSE]),
    to_file_name([kind |-> "Rook", is_white |-> TRUE]),
    Extras[1],
    Extras[Len(Extras)] } \cap AssetKeys

\* the sets of unreadable files a populate call may meet
MissingSets == {S \in SUBSET Fragile : Cardinality(S) <= MaxMissing}

\* the names get is called with
GetNames ==
  { <<"w","h","i","t","e","_","k","i","n","g",".","p","n","g">>,
    <<"b","l","a","c","k","_","b","i","s","h","o","p",".","p","n","g">>,
    <<"s","e","l","e","c","t","e","d",".","p","n","g">>,
    <<"n","o","n","e","x","i","s","t","e","n","t",".","p","n","g">> }

\* the state of a Cacher that does not take part in a specification
CacheIdle ==
  /\ path = "./assets" /\ assets = <<>> /\ calls = 0 /\ ret = None
  /\ attempted = <<>> /\ env = {} /\ got = None

KindIdle == value = <<>> /\ parsed = None

PieceIdle ==
  /\ x = [kind |-> "Pawn", is_white |-> FALSE] /\ y = x /\ z = x
  /\ ords = None /\ variants = <<>> /\ names = <<>>

(***************************************************************************)
(* Specification of the cache: Cacher::new, then populate and get.         *)
(***************************************************************************)
\* Cacher::new succeeded: a base path and an empty map
Init ==
  /\ path \in BasePaths
  /\ assets = <<>>
  /\ calls = 0 /\ ret = None /\ attempted = <<>> /\ env = {} /\ got = None
  /\ KindIdle /\ PieceIdle

Populate ==
  /\ calls < MaxPopulate
  /\ \E missing \in MissingSets :
       LET r == populate([path |-> path, assets |-> assets], missing, calls + 1)
       IN  /\ assets' = r.assets
           /\ ret' = r.ret
           /\ attempted' = r.attempted
           /\ env' = missing
  /\ calls' = calls + 1
  /\ got' = None
  /\ UNCHANGED <<path, kindVars, pieceVars>>

Get ==
  /\ \E p \in GetNames :
       LET r == get([path |-> path, assets |-> assets], p)
       IN  /\ got' = [name |-> p, res |-> r.res]
           /\ assets' = r.assets
  /\ UNCHANGED <<path, calls, ret, attempted, env, kindVars, pieceVars>>

Next == Populate \/ Get

Spec == Init /\ [][Next]_vars

(***************************************************************************)
(* Specification of parsing: a string is drawn, try_from is applied to it. *)
(***************************************************************************)
\* runs of whitespace of at most MaxPad characters
Pads == UNION {[1..n -> WhiteChars] : n \in 0..MaxPad}

\* the word w with the positions in S in upper case, the others in lower case
Cased(w, S) ==
  [i \in 1..Len(w) |-> IF i \in S THEN ToUpperChar(w[i]) ELSE ToLowerChar(w[i])]

\* strings that are not the name of a kind
OtherWords ==
  { <<"a","r","c","h","b","i","s","h","o","p">>,
    <<"k","i","n">>,
    <<"k","i","n","g","s">>,
    <<"k","i"," ","n","g">>,
    <<"r","o","o","k","\t","r","o","o","k">>,
    <<"p","a","w","n","s">>,
    <<>> }

\* every kind's display name in every mix of cases, and the other words,
\* each between two runs of whitespace
ParseInputs ==
  {l \o Cased(Display(k), S) \o r :
     l \in Pads, r \in Pads, k \in Kinds, S \in SUBSET (1..6)}
  \cup
  {l \o Cased(w, S) \o r :
     l \in Pads, r \in Pads, w \in OtherWords, S \in {{}, {1}, 1..10}}

InitKind ==
  /\ value \in ParseInputs
  /\ parsed = None
  /\ CacheIdle /\ PieceIdle

TryFrom ==
  /\ parsed = None
  /\ parsed' = try_from(value)
  /\ UNCHANGED <<value, cacheVars, pieceVars>>

NextKind == TryFrom

SpecKind == InitKind /\ [][NextKind]_vars

(***************************************************************************)
(* Specification of the pieces: three pieces are drawn; all_variants,      *)
(* to_file_name and cmp are applied.                                       *)
(***************************************************************************)
InitPiece ==
  /\ x \in ChessPiece /\ y \in ChessPiece /\ z \in ChessPiece
  /\ ords = None /\ variants = <<>> /\ names = <<>>
  /\ CacheIdle /\ KindIdle

AllVariants ==
  /\ variants = <<>>
  /\ variants' = all_variants
  /\ UNCHANGED <<x, y, z, ords, names, cacheVars, kindVars>>

ToFileNames ==
  /\ variants # <<>> /\ names = <<>>
  /\ names' = [i \in 1..Len(variants) |-> to_file_name(variants[i])]
  /\ UNCHANGED <<x, y, z, ords, variants, cacheVars, kindVars>>

Cmp ==
  /\ ords = None
  /\ ords' = [tag |-> "Cmp",
              xy |-> cmp(x, y), yx |-> cmp(y, x),
              yz |-> cmp(y, z), xz |-> cmp(x, z)]
  /\ UNCHANGED <<x, y, z, variants, names, cacheVars, kindVars>>

NextPiece == AllVariants \/ ToFileNames \/ Cmp

SpecPiece == InitPiece /\ [][NextPiece]_vars

(***************************************************************************)
(* Names used by the properties, written out as the specification lists    *)
(* them.                                                                   *)
(***************************************************************************)
LowerNames ==
  { <<"b","i","s","h","o","p">>, <<"k","n","i","g","h","t">>,
    <<"p","a","w","n">>, <<"r","o","o","k">>,
    <<"q","u","e","e","n">>, <<"k","i","n","g">> }

PieceFileNames ==
  {c \o <<"_">> \o n \o <<".","p","n","g">> :
     c \in { <<"b","l","a","c","k">>, <<"w","h","i","t","e">> },
     n \in LowerNames}

ExtraFileNames ==
  { <<"b","o","a","r","d","_","a","l","t",".","p","n","g">>,
    <<"h","i","g","h","l","i","g","h","t",".","p","n","g">>,
    <<"s","e","l","e","c","t","e","d",".","p","n","g">> }

WhiteKingPng == <<"w","h","i","t","e","_","k","i","n","g",".","p","n","g">>

NonexistentPng == <<"n","o","n","e","x","i","s","t","e","n","t",".","p","n","g">>

\* the load order of populate: the variants, then the extras
LoadOrder == VariantItems \o ExtraItems

\* the place of an asset in the load order
LoadIndex(a) == CHOOSE i \in 1..Len(LoadOrder) : LoadOrder[i].asset = a

\* the first place in the load order whose file is in the set S
FirstMissing(S) ==
  CHOOSE i \in 1..Len(LoadOrder) :
    /\ LoadOrder[i].key \in S
    /\ \A j \in 1..(i - 1) : LoadOrder[j].key \notin S

(***************************************************************************)
(* C1: populate on a freshly constructed cache, every load succeeding,     *)
(* returns Ok and leaves exactly the 15 keys: the 12 piece file names and  *)
(* board_alt.png, highlight.png, selected.png.                             *)
(***************************************************************************)
C1_PopulateFillsFifteen ==
  /\ (calls = 1 /\ env = {}) => ret = Ok("unit")
  /\ (calls = 1 /\ ret.tag = "Ok") =>
       /\ DOMAIN assets = PieceFileNames \cup ExtraFileNames
       /\ Cardinality(DOMAIN assets) = 15

C1_Witness ==
  calls = 1 /\ env = {} /\ ret.tag = "Ok" /\ WhiteKingPng \in DOMAIN assets

(***************************************************************************)
(* C2: populate is fail-fast: it returns an error naming the first asset   *)
(* of the load order whose load fails, and nothing later in the load order *)
(* is attempted or inserted during that call.                              *)
(***************************************************************************)
C2_FailFast ==
  /\ (calls >= 1 /\ env # {}) => ret.tag = "Err"
  /\ ret.tag = "Err" =>
       LET k == FirstMissing(env) IN
       /\ ret.err.asset = LoadOrder[k].asset
       /\ attempted = SubSeq(LoadOrder, 1, k)
       /\ \A i \in (k + 1)..Len(LoadOrder) :
            LoadOrder[i].key \in DOMAIN assets
              => assets[LoadOrder[i].key].call # calls

C2_Witness ==
  /\ ret.tag = "Err" /\ Cardinality(env) >= 2
  /\ Len(attempted) < 10
  /\ \E i \in (Len(attempted) + 1)..Len(LoadOrder) : LoadOrder[i].key \notin env

(***************************************************************************)
(* C3 as stated: once a populate call has returned, no get and no populate *)
(* changes the mapping again.                                              *)
(***************************************************************************)
C3_Original == [][ret # None => assets' = assets]_vars

(***************************************************************************)
(* C3 as amended: once a populate call has returned, get never changes the *)
(* mapping and no key is ever removed; a further populate call may add     *)
(* keys and replace the textures of the keys it loads again.               *)
(***************************************************************************)
C3_KeysKept ==
  [][ret # None =>
       /\ \A k \in DOMAIN assets : k \in DOMAIN assets'
       /\ calls' = calls => assets' = assets]_vars

C3_Witness ==
  /\ calls = 2
  /\ \E k \in DOMAIN assets : assets[k].call = 1
  /\ \E k \in DOMAIN assets : assets[k].call = 2

(***************************************************************************)
(* C4: get is a pure lookup in every state of the cache: it leaves the     *)
(* mapping and the base path unchanged, triggers no load, and returns a    *)
(* handle exactly when the name is a key some populate call inserted       *)
(* (white_king.png is present and nonexistent.png absent once populated).  *)
(***************************************************************************)
C4_GetIsPureLookup ==
  [][(got' # got /\ got' # None) =>
       /\ assets' = assets /\ path' = path
       /\ calls' = calls /\ attempted' = attempted /\ ret' = ret
       /\ got'.res = IF got'.name \in DOMAIN assets
                     THEN Some(assets[got'.name]) ELSE None
       /\ got'.res.tag = "Some" => got'.res.val.call \in 1..calls
       /\ (ret.tag = "Ok" /\ got'.name = WhiteKingPng) => got'.res.tag = "Some"
       /\ got'.name = NonexistentPng => got'.res = None]_vars

C4_Witness ==
  /\ got # None /\ got.name = WhiteKingPng /\ got.res.tag = "Some"
  /\ ret.tag = "Ok"

(***************************************************************************)
(* C5 as stated: the kinds are enumerated as Bishop, Knight, Pawn, Rook,   *)
(* Queen, King, black before white for each, so a populate call that       *)
(* succeeds has attempted black_bishop, white_bishop, black_knight,        *)
(* white_knight, black_pawn, white_pawn, black_rook, white_rook,           *)
(* black_queen, white_queen, black_king, white_king, then board_alt.png,   *)
(* highlight.png, selected.png.                                            *)
(***************************************************************************)
PairsOf(kinds) ==
  [i \in 1..(2 * Len(kinds)) |->
     [what |-> "variant", kind |-> kinds[(i + 1) \div 2],
      is_white |-> (i % 2 = 0)]]

ExtraOrder ==
  << [what |-> "extra",
      name |-> <<"b","o","a","r","d","_","a","l","t",".","p","n","g">>],
     [what |-> "extra",
      name |-> <<"h","i","g","h","l","i","g","h","t",".","p","n","g">>],
     [what |-> "extra",
      name |-> <<"s","e","l","e","c","t","e","d",".","p","n","g">>] >>

LowerName(k) ==
  CASE k = "Bishop" -> <<"b","i","s","h","o","p">>
    [] k = "Knight" -> <<"k","n","i","g","h","t">>
    [] k = "Pawn"   -> <<"p","a","w","n">>
    [] k = "Rook"   -> <<"r","o","o","k">>
    [] k = "Queen"  -> <<"q","u","e","e","n">>
    [] k = "King"   -> <<"k","i","n","g">>

\* the file name the specification gives an asset
NameOf(a) ==
  IF a.what = "extra" THEN a.name
  ELSE (IF a.is_white THEN <<"w","h","i","t","e">> ELSE <<"b","l","a","c","k">>)
         \o <<"_">> \o LowerName(a.kind) \o <<".","p","n","g">>

\* the last populate call attempted exactly the assets of order, in order
AttemptedIs(order) ==
  /\ Len(attempted) = Len(order)
  /\ \A i \in 1..Len(order) :
       attempted[i].asset = order[i] /\ attempted[i].key = NameOf(order[i])

\* the last populate call attempted a prefix of order
AttemptedPrefixOf(order) ==
  /\ Len(attempted) <= Len(order)
  /\ \A i \in 1..Len(attempted) :
       attempted[i].asset = order[i] /\ attempted[i].key = NameOf(order[i])

C5_Original ==
  ret.tag = "Ok" =>
    AttemptedIs(PairsOf(<<"Bishop", "Knight", "Pawn", "Rook", "Queen", "King">>)
                  \o ExtraOrder)

(***************************************************************************)
(* C5 as amended: the kinds are enumerated in the declared order Bishop,   *)
(* Knight, Pawn, Queen, King, Rook, black before white for each, so        *)
(* populate attempts black_bishop, white_bishop, black_knight,             *)
(* white_knight, black_pawn, white_pawn, black_queen, white_queen,         *)
(* black_king, white_king, black_rook, white_rook, then board_alt.png,     *)
(* highlight.png, selected.png; a call that fails attempted a prefix.      *)
(***************************************************************************)
C5_DeclaredOrder ==
  LET order == PairsOf(<<"Bishop", "Knight", "Pawn", "Queen", "King", "Rook">>)
                 \o ExtraOrder
  IN  /\ ret.tag = "Ok" => AttemptedIs(order)
      /\ ret.tag = "Err" => AttemptedPrefixOf(order)

C5_Witness ==
  /\ ret.tag = "Ok" /\ Len(attempted) = 15
  /\ attempted[7].asset.kind = "Queen" /\ attempted[12].asset.kind = "Rook"

(***************************************************************************)
(* C6: all_variants yields exactly 12 pairwise distinct (kind, color)      *)
(* pairs covering every kind in both colors, and to_file_name maps them    *)
(* one to one onto the 12 names {black,white}_{bishop,...,king}.png.       *)
(***************************************************************************)
C6_TwelveVariantsTwelveNames ==
  /\ variants # <<>> =>
       /\ Len(variants) = 12
       /\ \A i, j \in 1..Len(variants) : i # j => variants[i] # variants[j]
       /\ {variants[i] : i \in 1..Len(variants)} = ChessPiece
  /\ names # <<>> =>
       /\ Len(names) = 12
       /\ \A i, j \in 1..Len(names) : i # j => names[i] # names[j]
       /\ {names[i] : i \in 1..Len(names)} = PieceFileNames
       /\ \A i \in 1..Len(names) :
            names[i] = NameOf([what |-> "variant", kind |-> variants[i].kind,
                               is_white |-> variants[i].is_white])

C6_Witness ==
  /\ Len(variants) = 12 /\ Len(names) = 12
  /\ \E i \in 1..12 : names[i] = WhiteKingPng

(***************************************************************************)
(* C7: cmp is a total order on the 12 pieces and never aborts: every pair  *)
(* is comparable, the order is antisymmetric and transitive, a black piece *)
(* is less than a white one, and within a color pieces order by the rank   *)
(* Pawn < Knight < Bishop < Rook < Queen < King.                           *)
(***************************************************************************)
Rank(k) ==
  CHOOSE i \in 1..6 : <<"Pawn", "Knight", "Bishop", "Rook", "Queen", "King">>[i] = k

C7_TotalOrder ==
  ords # None =>
    /\ \A o \in {ords.xy, ords.yx, ords.yz, ords.xz} :
         o \in {"Less", "Equal", "Greater"}
    /\ (ords.xy = "Equal") <=> (x = y)
    /\ (ords.xy = "Less") <=> (ords.yx = "Greater")
    /\ (ords.xy = "Less" /\ ords.yz = "Less") => ords.xz = "Less"
    /\ (~x.is_white /\ y.is_white) => ords.xy = "Less"
    /\ (x.is_white = y.is_white) =>
         /\ (ords.xy = "Less") <=> (Rank(x.kind) < Rank(y.kind))
         /\ (ords.xy = "Greater") <=> (Rank(x.kind) > Rank(y.kind))

C7_Witness ==
  /\ ords # None
  /\ x = [kind |-> "Rook", is_white |-> FALSE]
  /\ y = [kind |-> "Queen", is_white |-> FALSE]
  /\ z = [kind |-> "Pawn", is_white |-> TRUE]
  /\ ords.xy = "Less" /\ ords.yz = "Less" /\ ords.xz = "Less"

(***************************************************************************)
(* C8: for each kind, try_from of its display name returns that kind,      *)
(* whatever the case of the letters and the whitespace around the name.    *)
(***************************************************************************)
\* a and b are the same letter, in either case
SameLetter(a, b) ==
  \E n \in 1..Len(UpperChars) : {a, b} \subseteq {UpperChars[n], LowerChars[n]}

\* v is the display name of k, in any case, between two runs of whitespace
IsDisplayNameOf(v, k) ==
  LET d == Display(k) IN
  \E i \in 0..Len(v) :
    /\ i + Len(d) <= Len(v)
    /\ \A c \in 1..i : v[c] \in WhiteChars
    /\ \A c \in 1..Len(d) : SameLetter(v[i + c], d[c])
    /\ \A c \in (i + Len(d) + 1)..Len(v) : v[c] \in WhiteChars

C8_ParseRoundTrip ==
  parsed # None =>
    \A k \in Kinds : IsDisplayNameOf(value, k) => parsed = Ok(k)

C8_Witness ==
  /\ parsed = Ok("Queen")
  /\ Len(value) = 7 /\ value[1] = "\t" /\ value[2] = "q" /\ value[3] = "U"
  /\ value[7] = " "

(***************************************************************************)
(* C9: try_from succeeds only when the trimmed, lowercased input is one of *)
(* bishop, knight, pawn, rook, queen, king; for any other input it returns *)
(* FailedMatch carrying the trimmed, lowercased string.                    *)
(***************************************************************************)
C9_ParseRejectsOthers ==
  parsed # None =>
    LET n == to_lowercase(trim(value)) IN
    /\ parsed.tag = "Ok" <=> n \in LowerNames
    /\ n \notin LowerNames => parsed = Err(FailedMatch(n))

C9_Witness ==
  /\ parsed = Err(FailedMatch(<<"a","r","c","h","b","i","s","h","o","p">>))
  /\ Len(value) = 12 /\ value[1] = "\n" /\ value[2] = "A" /\ value[12] = " "

(***************************************************************************)
(* C10: when populate on an empty cache fails at the k-th asset of the     *)
(* load order, the mapping holds exactly the k-1 assets before it: the     *)
(* failing key and every later key are absent, every earlier key is what   *)
(* get returns.                                                            *)
(***************************************************************************)
C10_PartialPrefix ==
  (calls = 1 /\ ret.tag = "Err") =>
    LET k == LoadIndex(ret.err.asset)
        earlier == {LoadOrder[i].key : i \in 1..(k - 1)}
    IN  /\ k = FirstMissing(env)
        /\ DOMAIN assets = earlier
        /\ Cardinality(DOMAIN assets) = k - 1
        /\ \A i \in k..Len(LoadOrder) : LoadOrder[i].key \notin DOMAIN assets
        /\ got # None =>
             /\ got.name \in earlier => got.res.tag = "Some"
             /\ got.name \notin earlier => got.res = None

C10_Witness ==
  /\ calls = 1 /\ ret.tag = "Err"
  /\ Cardinality(DOMAIN assets) = 10
  /\ got # None /\ got.res.tag = "Some"

====
